---- MODULE Spec2Model ----
(***************************************************************************)
(* navitime-reachable-api: the reachable-area pipeline of src/src/main.py  *)
(* (NavitimeClient.get_reachable_transit, DataProcessor, MapVisualizer)    *)
(* and the offline script src/test_with_response.py.                       *)
(*                                                                         *)
(* Conventions.                                                            *)
(*  - A Python dict is a function whose DOMAIN is the set of its keys.     *)
(*  - A Python str that the code inspects (names, colours) is a sequence   *)
(*    of one-character strings.  The module text is ASCII, so the katakana *)
(*    letters BA and SU are written "KA_BA", "KA_SU", the kanji for        *)
(*    station "EKI", and the Japanese column titles are transliterated.    *)
(*  - Optional[int] is a set: {} is None, {k} is the integer k.            *)
(*  - Coordinates are integers (degrees scaled); the geometry is exact,    *)
(*    floating-point rounding is not modelled.                             *)
(***************************************************************************)
EXTENDS Integers, Sequences, FiniteSets, TLC

VARIABLES
    pc,             \* position of the running script
    args,           \* command line of main.py: lat, lon, time, transfers
    scipy,          \* TRUE iff "from scipy.spatial import ConvexHull" succeeds
    response,       \* what the remote API (or response.json) delivers
    reachable_data, \* return value of get_reachable_transit / the test's dict
    coordinates,    \* the point list handed to _generate_polygon_from_points
    polygon_coords, \* polygon handed to add_reachable_polygon
    stations_df,    \* DataFrame of stations
    bus_stops_df,   \* DataFrame of bus stops
    map             \* the folium map: markers, overlay, saved flag

vars == <<pc, args, scipy, response, reachable_data, coordinates, polygon_coords,
          stations_df, bus_stops_df, map>>

-----------------------------------------------------------------------------
(* Bounds of the model *)

MaxPoints == 4
MaxNodes == 3
MaxNameLen == 3
MaxDuration == 35

-----------------------------------------------------------------------------
(* Python helpers *)

\* dict.get(key, default)
Get(d, key, default) == IF key \in DOMAIN d THEN d[key] ELSE default

\* isinstance(v, dict) on a tagged JSON value
IsDict(v) == v.kind = "dict"

LowerCase == <<"a","b","c","d","e","f","g","h","i","j","k","l","m",
               "n","o","p","q","r","s","t","u","v","w","x","y","z">>
UpperCase == <<"A","B","C","D","E","F","G","H","I","J","K","L","M",
               "N","O","P","Q","R","S","T","U","V","W","X","Y","Z">>

UpperChar(c) ==
    IF \E i \in 1..26 : LowerCase[i] = c
    THEN UpperCase[CHOOSE i \in 1..26 : LowerCase[i] = c]
    ELSE c

LowerChar(c) ==
    IF \E i \in 1..26 : UpperCase[i] = c
    THEN LowerCase[CHOOSE i \in 1..26 : UpperCase[i] = c]
    ELSE c

\* str.upper() / str.lower()
Upper(s) == [i \in 1..Len(s) |-> UpperChar(s[i])]
Lower(s) == [i \in 1..Len(s) |-> LowerChar(s[i])]

\* "sub in s" on strings
Contains(sub, s) ==
    \E i \in 0..(Len(s) - Len(sub)) : SubSeq(s, i + 1, i + Len(sub)) = sub

\* str.replace(ch, "") for a one-character ch
RECURSIVE RemoveChar(_, _)
RemoveChar(s, ch) ==
    IF s = <<>> THEN <<>>
    ELSE IF Head(s) = ch THEN RemoveChar(Tail(s), ch)
    ELSE <<Head(s)>> \o RemoveChar(Tail(s), ch)

BASU == <<"KA_BA", "KA_SU">>
BUS == <<"B", "U", "S">>

-----------------------------------------------------------------------------
(* api_client.py: parsing and classification of the 200 response *)

\* api_client.py line 108
IsBusStopName(node_name) ==
    Contains(BASU, node_name) \/ Contains(BUS, Upper(node_name))

\* test_with_response.py line 62
TestIsBusStopName(node_name) == Contains(BASU, node_name)

NodeData(item, lat, lon, type) ==
    [name |-> Get(item, "name", <<>>),
     lat |-> lat,
     lon |-> lon,
     time |-> Get(item, "time", 0),
     transfers |-> Get(item, "transit_count", 0),
     lines |-> <<>>,
     node_id |-> Get(item, "node_id", <<>>),
     type |-> type]

EmptyParse == [stations |-> <<>>, bus_stops |-> <<>>, coordinates |-> <<>>]

\* lines 89-113 of api_client.py (45-67 of test_with_response.py): the body
\* run for an item whose coord is a dict; is_bus is the outcome of the name test
AcceptItem(acc, item, is_bus) ==
    LET coord_data == item["coord"].val
        lat == Get(coord_data, "lat", 0)
        lon == Get(coord_data, "lon", 0)
    IN IF is_bus
       THEN [acc EXCEPT !.coordinates = Append(@, <<lat, lon>>),
                        !.bus_stops = Append(@, NodeData(item, lat, lon, "bus_stop"))]
       ELSE [acc EXCEPT !.coordinates = Append(@, <<lat, lon>>),
                        !.stations = Append(@, NodeData(item, lat, lon, "station"))]

\* api_client.py lines 84-113: one iteration of the loop over data["items"]
ParseItem(acc, item) ==
    IF "coord" \in DOMAIN item /\ IsDict(item["coord"])
    THEN AcceptItem(acc, item, IsBusStopName(Get(item, "name", <<>>)))
    ELSE acc

RECURSIVE ParseLoop(_, _)
ParseLoop(acc, items) ==
    IF items = <<>> THEN acc
    ELSE ParseLoop(ParseItem(acc, Head(items)), Tail(items))

\* api_client.py lines 77-113
ParseItems(data) ==
    IF "items" \in DOMAIN data
    THEN ParseLoop(EmptyParse, Get(data, "items", <<>>))
    ELSE EmptyParse

\* test_with_response.py lines 39-67: one iteration of its copy of the loop
TestParseItem(acc, item) ==
    IF "coord" \in DOMAIN item /\ IsDict(item["coord"])
    THEN AcceptItem(acc, item, TestIsBusStopName(Get(item, "name", <<>>)))
    ELSE acc

RECURSIVE TestParseLoop(_, _)
TestParseLoop(acc, items) ==
    IF items = <<>> THEN acc
    ELSE TestParseLoop(TestParseItem(acc, Head(items)), Tail(items))

\* test_with_response.py lines 33-67
TestParseItems(data) == TestParseLoop(EmptyParse, Get(data, "items", <<>>))

-----------------------------------------------------------------------------
(* api_client.py: _generate_polygon_from_points *)

\* a Point is the Python list [lat, lon]
Cross(a, b, c) == (b[1] - a[1]) * (c[2] - a[2]) - (b[2] - a[2]) * (c[1] - a[1])

PointSet(points) == {points[i] : i \in 1..Len(points)}

Collinear(P) == \A a \in P, b \in P, c \in P : Cross(a, b, c) = 0

\* c lies on the closed segment from a to b (given Cross(a, b, c) = 0)
Between(a, b, c) ==
    /\ (c[1] - a[1]) * (c[1] - b[1]) <= 0
    /\ (c[2] - a[2]) * (c[2] - b[2]) <= 0

\* a -> b is an edge of the convex hull of P walked counterclockwise: every
\* other point is strictly to its left, or on the segment itself
HullEdge(P, a, b) ==
    /\ a # b
    /\ \A c \in P \ {a, b} :
          \/ Cross(a, b, c) > 0
          \/ Cross(a, b, c) = 0 /\ Between(a, b, c)

HullVertexSet(P) == {a \in P : \E b \in P : HullEdge(P, a, b)}

HullSucc(P, a) == CHOOSE b \in P : HullEdge(P, a, b)

RECURSIVE HullWalk(_, _, _)
HullWalk(P, a, n) ==
    IF n = 0 THEN <<>> ELSE <<a>> \o HullWalk(P, HullSucc(P, a), n - 1)

IndexOf(points, a) == CHOOSE i \in 1..Len(points) : points[i] = a
                         /\ \A j \in 1..(i - 1) : points[j] # a

\* scipy.spatial.ConvexHull(points_array) for 2-D input, as the library
\* documents it: QhullError when the input is flat (all points collinear or
\* equal); otherwise .vertices holds the indices of the extreme points in
\* counterclockwise order.  Which vertex comes first is up to Qhull: `first`
\* is that choice.
ConvexHull(points, first) ==
    LET P == PointSet(points)
    IN IF Collinear(P)
       THEN [raised |-> "QhullError", vertices |-> <<>>]
       ELSE LET walk == HullWalk(P, first, Cardinality(HullVertexSet(P)))
            IN [raised |-> "none",
                vertices |-> [i \in 1..Len(walk) |-> IndexOf(points, walk[i])]]

\* the choices of `first` Qhull may make
HullFirsts(points, have_scipy) ==
    IF ~have_scipy \/ Len(points) < 3 \/ Collinear(PointSet(points))
    THEN {<<0, 0>>}
    ELSE HullVertexSet(PointSet(points))

RECURSIVE SumSeq(_)
SumSeq(s) == IF s = <<>> THEN 0 ELSE Head(s) + SumSeq(Tail(s))

\* angle_from_center(point) = atan2(point[1] - center_lon, point[0] - center_lat)
\* is compared exactly: the vector from the centre, scaled by len(points), is
\* <<dx, dy>> with dx the latitude and dy the longitude difference.
FromCenter(points, p) ==
    LET n == Len(points)
        sum_lat == SumSeq([i \in 1..n |-> points[i][1]])
        sum_lon == SumSeq([i \in 1..n |-> points[i][2]])
    IN <<n * p[1] - sum_lat, n * p[2] - sum_lon>>

\* where atan2(dy, dx) falls: 0 for (-pi, 0), 1 for 0 (atan2(0, 0) = 0 too),
\* 2 for (0, pi), 3 for pi
AngleClass(v) ==
    IF v[2] < 0 THEN 0
    ELSE IF v[2] > 0 THEN 2
    ELSE IF v[1] >= 0 THEN 1 ELSE 3

\* atan2 of v is smaller than atan2 of w
AngleLess(v, w) ==
    \/ AngleClass(v) < AngleClass(w)
    \/ /\ AngleClass(v) = AngleClass(w)
       /\ AngleClass(v) \in {0, 2}
       /\ v[1] * w[2] - w[1] * v[2] > 0

\* sorted() is stable: x goes behind every element that is not greater
RECURSIVE InsertByAngle(_, _, _)
InsertByAngle(points, sorted, x) ==
    IF sorted = <<>> THEN <<x>>
    ELSE IF AngleLess(FromCenter(points, x), FromCenter(points, Head(sorted)))
         THEN <<x>> \o sorted
         ELSE <<Head(sorted)>> \o InsertByAngle(points, Tail(sorted), x)

RECURSIVE SortByAngle(_, _, _)
SortByAngle(points, rest, sorted) ==
    IF rest = <<>> THEN sorted
    ELSE SortByAngle(points, Tail(rest), InsertByAngle(points, sorted, Head(rest)))

\* the except branch connecting the distinct points only
AngularFallbackDistinct(points) ==
    LET distinct == SelectSeq([i \in 1..Len(points) |-> <<i, points[i]>>],
                       LAMBDA e : \A j \in 1..(e[1] - 1) : points[j] # e[2])
        sorted_points == SortByAngle(points, [i \in 1..Len(distinct) |-> distinct[i][2]], <<>>)
    IN Append(sorted_points, sorted_points[1])

\* lines 398-415: the except ImportError branch
AngularFallback(points) ==
    LET sorted_points == SortByAngle(points, points, <<>>)
    IN Append(sorted_points, sorted_points[1])

\* the try branch reading points[idx - 1] in place of points[idx]
HullPathOffByOne(points, first) ==
    LET hull == ConvexHull(points, first)
        n == Len(points)
        hull_points == [i \in 1..Len(hull.vertices) |->
                           points[((hull.vertices[i] + n - 2) % n) + 1]]
    IN IF hull.raised # "none"
       THEN [raised |-> hull.raised, value |-> <<>>]
       ELSE [raised |-> "none",
             value |-> IF hull_points # <<>>
                       THEN Append(hull_points, hull_points[1])
                       ELSE hull_points]

\* lines 377-396: the try branch, once the import has succeeded
HullPath(points, first) ==
    LET hull == ConvexHull(points, first)
        hull_points == [i \in 1..Len(hull.vertices) |-> points[hull.vertices[i]]]
    IN IF hull.raised # "none"
       THEN [raised |-> hull.raised, value |-> <<>>]
       ELSE [raised |-> "none",
             value |-> IF hull_points # <<>>
                       THEN Append(hull_points, hull_points[1])
                       ELSE hull_points]

\* _generate_polygon_from_points(points); have_scipy says whether the import
\* in the try block succeeds.  The result is the returned polygon, or the
\* exception that leaves the function.
GeneratePolygonFromPoints(points, have_scipy, first) ==
    IF Len(points) < 3 THEN [raised |-> "none", value |-> <<>>]
    ELSE IF have_scipy THEN HullPath(points, first)
    ELSE [raised |-> "none", value |-> AngularFallback(points)]

-----------------------------------------------------------------------------
(* api_client.py: the mock dataset.  Latitudes and longitudes of the mock    *)
(* data and of the command line are in units of 1e-7 degree.                 *)

\* lines 245-291
MockStations == <<
    [name |-> <<"Nihombashi", "EKI">>, lat |-> 356827000, lon |-> 1397745000,
     type |-> "station", lines |-> <<"Ginza", "Tozai", "Asakusa">>,
     time |-> 5, transfers |-> 0],
    [name |-> <<"Hatchobori", "EKI">>, lat |-> 356748000, lon |-> 1397767000,
     type |-> "station", lines |-> <<"Keiyo", "Hibiya">>,
     time |-> 8, transfers |-> 0],
    [name |-> <<"Monzennakacho", "EKI">>, lat |-> 356719000, lon |-> 1397955000,
     type |-> "station", lines |-> <<"Tozai", "Oedo">>,
     time |-> 10, transfers |-> 0],
    [name |-> <<"Tokyo", "EKI">>, lat |-> 356812000, lon |-> 1397671000,
     type |-> "station", lines |-> <<"JR", "Marunouchi">>,
     time |-> 15, transfers |-> 1],
    [name |-> <<"Ginza", "EKI">>, lat |-> 356715000, lon |-> 1397650000,
     type |-> "station", lines |-> <<"Ginza", "Marunouchi", "Hibiya">>,
     time |-> 12, transfers |-> 1] >>

\* lines 293-312
MockBusStops == <<
    [name |-> <<"Kayabacho", "KA_BA", "KA_SU", "TEI">>, lat |-> 356815000,
     lon |-> 1397780000, type |-> "bus_stop", lines |-> <<"Higashi22">>,
     time |-> 2, transfers |-> 0],
    [name |-> <<"Kabutocho", "KA_BA", "KA_SU", "TEI">>, lat |-> 356799000,
     lon |-> 1397785000, type |-> "bus_stop", lines |-> <<"Higashi22", "Nishiki11">>,
     time |-> 5, transfers |-> 0] >>

\* a list comprehension [x for x in s if Keep(x)]
RECURSIVE KeepTransfers(_, _)
KeepTransfers(s, k) ==
    IF s = <<>> THEN <<>>
    ELSE IF Head(s)["transfers"] <= k
         THEN <<Head(s)>> \o KeepTransfers(Tail(s), k)
         ELSE KeepTransfers(Tail(s), k)

RECURSIVE KeepTime(_, _)
KeepTime(s, t) ==
    IF s = <<>> THEN <<>>
    ELSE IF Head(s)["time"] <= t
         THEN <<Head(s)>> \o KeepTime(Tail(s), t)
         ELSE KeepTime(Tail(s), t)

\* the mock filter without its second comprehension
MockFilterNoTime(nodes, time_limit, max_transfers) ==
    IF max_transfers # {}
    THEN KeepTransfers(nodes, CHOOSE k \in max_transfers : TRUE)
    ELSE nodes

\* lines 314-321
MockFilter(nodes, time_limit, max_transfers) ==
    LET by_transfers == IF max_transfers # {}
                        THEN KeepTransfers(nodes, CHOOSE k \in max_transfers : TRUE)
                        ELSE nodes
    IN KeepTime(by_transfers, time_limit)

\* _get_mock_stations_data
GetMockStationsData(lat, lon, time_limit, max_transfers) ==
    [stations |-> MockFilter(MockStations, time_limit, max_transfers),
     bus_stops |-> MockFilter(MockBusStops, time_limit, max_transfers)]

\* 1000 * sin(d degrees) for the multiples of 10 the generator uses
SinTable == <<0, 174, 342, 500, 643, 766, 866, 940, 985, 1000>>

SinMilli(d) ==
    LET r == d % 360
    IN IF r <= 90 THEN SinTable[(r \div 10) + 1]
       ELSE IF r <= 180 THEN SinTable[((180 - r) \div 10) + 1]
       ELSE IF r <= 270 THEN 0 - SinTable[((r - 180) \div 10) + 1]
       ELSE 0 - SinTable[((360 - r) \div 10) + 1]

CosMilli(d) == SinMilli(d + 90)

\* 1000 * math.cos(math.radians(lat)) at the latitudes the model starts from
CosLatMilli(lat) ==
    CASE lat = 356817137 -> 812
      [] lat = 0 -> 1000
      [] OTHER -> 500

\* lines 353-357: the i-th sample.  radius_km / 111 degrees is
\* radius_minutes * 800 / 111 units of 1e-7 degree per unit of sine.
MockPolygonPoint(lat, lon, radius_minutes, i) ==
    LET angle == i * 10
        dlat == (radius_minutes * 800 * SinMilli(angle)) \div 111
        dlon == (((radius_minutes * 800 * CosMilli(angle)) \div 111) * 1000)
                    \div CosLatMilli(lat)
    IN <<lat + dlat, lon + dlon>>

\* the generator without points.append(points[0])
GenerateMockPolygonOpen(lat, lon, radius_minutes) ==
    [j \in 1..36 |-> MockPolygonPoint(lat, lon, radius_minutes, j - 1)]

\* _generate_mock_polygon
GenerateMockPolygon(lat, lon, radius_minutes) ==
    LET points == [j \in 1..36 |-> MockPolygonPoint(lat, lon, radius_minutes, j - 1)]
    IN Append(points, points[1])

\* _get_mock_reachable_data
GetMockReachableData(lat, lon, time_limit, max_transfers) ==
    LET mock_data == GetMockStationsData(lat, lon, time_limit, max_transfers)
    IN [count |-> Len(mock_data.stations) + Len(mock_data.bus_stops),
        stations |-> mock_data.stations,
        bus_stops |-> mock_data.bus_stops,
        coordinates |-> GenerateMockPolygon(lat, lon, time_limit)]

-----------------------------------------------------------------------------
(* data_processor.py.  A DataFrame is its column titles and its rows.  The   *)
(* titles are transliterated: ekimei, basuteimei (name), ido (latitude),     *)
(* keido (longitude), shurui (kind), rosen (lines), shoyo_jikan (minutes     *)
(* needed), norikae_kaisu (number of transfers).                             *)

StationColumns ==
    <<"ekimei", "ido", "keido", "shurui", "rosen", "shoyo_jikan", "norikae_kaisu">>

BusStopColumns ==
    <<"basuteimei", "ido", "keido", "shurui", "rosen", "shoyo_jikan", "norikae_kaisu">>

\* ", ".join(lines)
RECURSIVE JoinLines(_)
JoinLines(lines) ==
    IF lines = <<>> THEN <<>>
    ELSE IF Len(lines) = 1 THEN <<Head(lines)>>
    ELSE <<Head(lines), ", ">> \o JoinLines(Tail(lines))

\* lines 72-80: the dict appended for one station
StationRow(station) ==
    [ekimei |-> Get(station, "name", <<>>),
     ido |-> Get(station, "lat", 0),
     keido |-> Get(station, "lon", 0),
     shurui |-> "EKI",
     rosen |-> JoinLines(Get(station, "lines", <<>>)),
     shoyo_jikan |-> Get(station, "time", 0),
     norikae_kaisu |-> Get(station, "transfers", 0)]

\* lines 123-131: the dict appended for one bus stop
BusStopRow(bus_stop) ==
    [basuteimei |-> Get(bus_stop, "name", <<>>),
     ido |-> Get(bus_stop, "lat", 0),
     keido |-> Get(bus_stop, "lon", 0),
     shurui |-> "BASUTEI",
     rosen |-> JoinLines(Get(bus_stop, "lines", <<>>)),
     shoyo_jikan |-> Get(bus_stop, "time", 0),
     norikae_kaisu |-> Get(bus_stop, "transfers", 0)]

\* the skip test with the comparison turned round
SkipNodeLess(node, max_transfers) ==
    /\ max_transfers # {}
    /\ \E k \in max_transfers : Get(node, "transfers", 0) < k

\* line 62 (113): the test that makes the loop skip a node
SkipNode(node, max_transfers) ==
    /\ max_transfers # {}
    /\ \E k \in max_transfers : Get(node, "transfers", 0) > k

\* lines 59-80: the loop building processed_stations
RECURSIVE ProcessedStations(_, _)
ProcessedStations(stations, max_transfers) ==
    IF stations = <<>> THEN <<>>
    ELSE IF SkipNode(Head(stations), max_transfers)
         THEN ProcessedStations(Tail(stations), max_transfers)
         ELSE <<StationRow(Head(stations))>>
                  \o ProcessedStations(Tail(stations), max_transfers)

\* lines 110-131: the loop building processed_bus_stops
RECURSIVE ProcessedBusStops(_, _)
ProcessedBusStops(bus_stops, max_transfers) ==
    IF bus_stops = <<>> THEN <<>>
    ELSE IF SkipNode(Head(bus_stops), max_transfers)
         THEN ProcessedBusStops(Tail(bus_stops), max_transfers)
         ELSE <<BusStopRow(Head(bus_stops))>>
                  \o ProcessedBusStops(Tail(bus_stops), max_transfers)

\* pd.DataFrame() in place of pd.DataFrame(columns=[...])
EmptyFrameNoColumns(columns) == [columns |-> <<>>, rows |-> <<>>]

\* pd.DataFrame(columns=[...])
EmptyFrame(columns) == [columns |-> columns, rows |-> <<>>]

\* pd.DataFrame(list_of_dicts): the columns are the keys of the dicts, so a
\* list with no dict in it gives a frame with no column
DataFrame(records, keys) ==
    [columns |-> IF records = <<>> THEN <<>> ELSE keys, rows |-> records]

\* df.empty
IsEmpty(df) == df.columns = <<>> \/ df.rows = <<>>

MinOf(S) == CHOOSE m \in S : \A x \in S : m <= x

\* the orders of rows[i], i in idx, that are ascending in column by
RECURSIVE AscendingOrders(_, _, _)
AscendingOrders(rows, idx, by) ==
    IF idx = {} THEN {<<>>}
    ELSE LET least == MinOf({rows[i][by] : i \in idx})
             firsts == {i \in idx : rows[i][by] = least}
         IN UNION {{<<rows[i]>> \o rest :
                        rest \in AscendingOrders(rows, idx \ {i}, by)} :
                   i \in firsts}

\* df.sort_values(by): kind defaults to "quicksort", which pandas and numpy
\* document as not stable, so rows that tie in the column may come out in
\* any order.  The value is the set of frames the call may return.
SortValues(df, by) ==
    {[columns |-> df.columns, rows |-> r] :
        r \in AscendingOrders(df.rows, 1..Len(df.rows), by)}

\* _process_stations: the set of frames it may return
ProcessStations(stations, max_transfers) ==
    IF stations = <<>> THEN {EmptyFrame(StationColumns)}
    ELSE LET df == DataFrame(ProcessedStations(stations, max_transfers),
                             StationColumns)
         IN IF ~IsEmpty(df) THEN SortValues(df, "shoyo_jikan") ELSE {df}

\* _process_bus_stops: the set of frames it may return
ProcessBusStops(bus_stops, max_transfers) ==
    IF bus_stops = <<>> THEN {EmptyFrame(BusStopColumns)}
    ELSE LET df == DataFrame(ProcessedBusStops(bus_stops, max_transfers),
                             BusStopColumns)
         IN IF ~IsEmpty(df) THEN SortValues(df, "shoyo_jikan") ELSE {df}

-----------------------------------------------------------------------------
(* map_visualizer.py *)

Finite(v) == [inf |-> FALSE, v |-> v]
Infinity == [inf |-> TRUE, v |-> 0]

\* lines 27-32: self.time_colors, the dict as its set of (key, value) items
TimeColors ==
    {<<Finite(10), <<"#", "2", "E", "C", "C", "4", "0">>>>,
     <<Finite(20), <<"#", "F", "F", "D", "C", "0", "0">>>>,
     <<Finite(30), <<"#", "F", "F", "8", "5", "1", "B">>>>,
     <<Infinity, <<"#", "F", "F", "4", "1", "3", "6">>>>}

\* a <= b on thresholds, float('inf') being above every number
ThresholdLeq(a, b) == b.inf \/ (~a.inf /\ a.v <= b.v)

\* the comparison written time < threshold
TimeLt(time, threshold) == threshold.inf \/ time < threshold.v

\* time <= threshold for an integer time
TimeLeq(time, threshold) == threshold.inf \/ time <= threshold.v

\* sorted(d.items())
RECURSIVE SortedItems(_)
SortedItems(S) ==
    IF S = {} THEN <<>>
    ELSE LET least == CHOOSE x \in S : \A y \in S : ThresholdLeq(x[1], y[1])
         IN <<least>> \o SortedItems(S \ {least})

Gray == <<"g", "r", "a", "y">>

\* lines 150-153: the loop over the sorted items
RECURSIVE FirstColor(_, _)
FirstColor(items, time) ==
    IF items = <<>> THEN Gray
    ELSE IF TimeLeq(time, Head(items)[1])
         THEN Lower(RemoveChar(Head(items)[2], "#"))
         ELSE FirstColor(Tail(items), time)

\* _get_color_by_time, time_colors being self.time_colors
GetColorByTime(time_colors, time) == FirstColor(SortedItems(time_colors), time)

\* MapVisualizer.__init__: the colour table and a map without layers
EmptyMap ==
    [time_colors |-> TimeColors,
     center |-> FALSE, stations |-> <<>>, bus_stops |-> <<>>,
     polygons |-> <<>>, legend |-> FALSE, saved |-> FALSE]

\* add_stations / add_bus_stops: one marker per row of the frame
Marker(time_colors, row, name_column, icon) ==
    LET time == Get(row, "shoyo_jikan", 0)
    IN [name |-> Get(row, name_column, <<>>),
        location |-> <<Get(row, "ido", 0), Get(row, "keido", 0)>>,
        time |-> time,
        transfers |-> Get(row, "norikae_kaisu", 0),
        color |-> GetColorByTime(time_colors, time),
        icon |-> icon]

AddStations(m, df) ==
    [m EXCEPT !.stations =
        @ \o [i \in 1..Len(df.rows) |->
                 Marker(m.time_colors, df.rows[i], "ekimei", "train")]]

AddBusStops(m, df) ==
    [m EXCEPT !.bus_stops =
        @ \o [i \in 1..Len(df.rows) |->
                 Marker(m.time_colors, df.rows[i], "basuteimei", "bus")]]

\* add_reachable_polygon without the two emptiness tests
AddReachablePolygonUnguarded(m, coords) ==
    [m EXCEPT !.polygons = Append(@, coords)]

\* add_reachable_polygon: every coordinate is a list of two numbers, so
\* polygon_coords is the whole list
AddReachablePolygon(m, coords) ==
    IF coords = <<>> THEN m
    ELSE [m EXCEPT !.polygons = Append(@, coords)]

\* save_map
SaveMap(m) == [m EXCEPT !.legend = TRUE, !.saved = TRUE]

-----------------------------------------------------------------------------
(* main.py *)

\* get_reachable_transit on a 200 response, Qhull starting its vertex list at
\* `first`: the returned dict, or the exception leaving the method
Reachable200(data, have_scipy, first) ==
    LET parsed == ParseItems(data)
        polygon == GeneratePolygonFromPoints(parsed.coordinates, have_scipy, first)
    IN [raised |-> polygon.raised,
        value |-> [count |-> Get(data, "count", 0),
                   stations |-> parsed.stations,
                   bus_stops |-> parsed.bus_stops,
                   coordinates |-> polygon.value]]

NoData == [count |-> 0, stations |-> <<>>, bus_stops |-> <<>>, coordinates |-> <<>>]
NoFrame == [columns |-> <<>>, rows |-> <<>>]

\* bool(d) of a dict or None: an empty dict is falsy, as None would be
Truthy(d) == DOMAIN d # {}

\* main.py lines 87-96 with api_client.py lines 65-140; "fetch_failed" is the
\* sys.exit(1) of line 96
GetReachableTransit ==
    /\ pc = "start"
    /\ IF response.status = "200"
       THEN /\ coordinates' = ParseItems(response.data).coordinates
            /\ \E first \in HullFirsts(coordinates', scipy) :
                  LET r == Reachable200(response.data, scipy, first)
                  IN IF r.raised # "none"
                     THEN \* not a RequestException: caught by main, sys.exit(1)
                          /\ pc' = "error"
                          /\ UNCHANGED reachable_data
                     ELSE /\ reachable_data' = r.value
                          /\ pc' = IF Truthy(reachable_data')
                                   THEN "fetched" ELSE "fetch_failed"
       ELSE \* lines 127-140: the mock data stand in for the response
            /\ reachable_data' =
                   GetMockReachableData(args.lat, args.lon, args.time, args.transfers)
            /\ pc' = IF Truthy(reachable_data') THEN "fetched" ELSE "fetch_failed"
            /\ UNCHANGED coordinates
    /\ UNCHANGED <<args, scipy, response, polygon_coords, stations_df,
                   bus_stops_df, map>>

\* main.py lines 99-117 with process_reachable_data
ProcessReachableData ==
    /\ pc = "fetched"
    /\ stations_df' \in ProcessStations(reachable_data.stations, args.transfers)
    /\ bus_stops_df' \in ProcessBusStops(reachable_data.bus_stops, args.transfers)
    /\ pc' = "processed"
    /\ UNCHANGED <<args, scipy, response, reachable_data, coordinates,
                   polygon_coords, map>>

\* main.py lines 121-136
Visualize ==
    /\ pc = "processed"
    /\ polygon_coords' = reachable_data.coordinates
    /\ map' = SaveMap(AddReachablePolygon(
                  AddBusStops(AddStations([map EXCEPT !.center = TRUE],
                                          stations_df), bus_stops_df),
                  reachable_data.coordinates))
    /\ pc' = "done"
    /\ UNCHANGED <<args, scipy, response, reachable_data, coordinates,
                   stations_df, bus_stops_df>>

-----------------------------------------------------------------------------
(* test_with_response.py *)

\* lines 18-79: response.json is read and parsed
TestParse ==
    /\ pc = "start"
    /\ response.status = "200"
    /\ LET parsed == TestParseItems(response.data)
       IN /\ coordinates' = parsed.coordinates
          /\ reachable_data' =
                 [stations |-> parsed.stations, bus_stops |-> parsed.bus_stops]
    /\ pc' = "t_parsed"
    /\ UNCHANGED <<args, scipy, response, polygon_coords, stations_df,
                   bus_stops_df, map>>

\* lines 81-93
TestProcess ==
    /\ pc = "t_parsed"
    /\ stations_df' \in ProcessStations(reachable_data.stations, {1})
    /\ bus_stops_df' \in ProcessBusStops(reachable_data.bus_stops, {1})
    /\ pc' = "t_processed"
    /\ UNCHANGED <<args, scipy, response, reachable_data, coordinates,
                   polygon_coords, map>>

\* lines 101-121
TestVisualize ==
    /\ pc = "t_processed"
    /\ LET m == AddBusStops(AddStations([map EXCEPT !.center = TRUE],
                                        stations_df), bus_stops_df)
       IN IF coordinates # <<>>
          THEN \E first \in HullFirsts(coordinates, scipy) :
                  LET p == GeneratePolygonFromPoints(coordinates, scipy, first)
                  IN IF p.raised # "none"
                     THEN /\ pc' = "t_error"
                          /\ map' = m
                          /\ UNCHANGED polygon_coords
                     ELSE /\ pc' = "t_mapped"
                          /\ polygon_coords' = p.value
                          /\ map' = SaveMap(AddReachablePolygon(m, p.value))
          ELSE /\ pc' = "t_mapped"
               /\ map' = SaveMap(m)
               /\ UNCHANGED polygon_coords
    /\ UNCHANGED <<args, scipy, response, reachable_data, coordinates,
                   stations_df, bus_stops_df>>

\* df[column]: KeyError when the frame has no such column
HasColumn(df, column) == \E i \in 1..Len(df.columns) : df.columns[i] = column

\* lines 124-129: the statistics
TestStatistics ==
    /\ pc = "t_mapped"
    /\ pc' = IF /\ (~IsEmpty(stations_df) => HasColumn(stations_df, "shoyo_jikan"))
                /\ HasColumn(stations_df, "norikae_kaisu")
             THEN "t_done" ELSE "t_error"
    /\ UNCHANGED <<args, scipy, response, reachable_data, coordinates,
                   polygon_coords, stations_df, bus_stops_df, map>>

Next ==
    \/ GetReachableTransit
    \/ ProcessReachableData
    \/ Visualize
    \/ TestParse
    \/ TestProcess
    \/ TestVisualize
    \/ TestStatistics

-----------------------------------------------------------------------------
(* Initial states: the command line, the environment and the response.     *)

DictCoord(lat, lon) == [kind |-> "dict", val |-> ("lat" :> lat) @@ ("lon" :> lon)]

\* one element of the "items" array of the response
Item(name, coord, time, transit_count) ==
    ("coord" :> coord) @@ ("name" :> name) @@ ("time" :> time)
        @@ ("transit_count" :> transit_count)

Ok200(items) ==
    [status |-> "200", data |-> ("items" :> items) @@ ("count" :> Len(items))]

\* the request fails: a status other than 200, a RequestException raised by
\* requests.get, a JSONDecodeError raised by response.json()
FailedResponses ==
    {[status |-> s, data |-> ("count" :> 0)] :
        s \in {"non200", "RequestException", "JSONDecodeError"}}

\* main.py lines 23-49: the defaults of the command line
DefaultArgs ==
    [lat |-> 356817137, lon |-> 1397777797, time |-> 30, transfers |-> {1}]

\* the state before main runs; tables are the colour tables the visualizer
\* may be set up with
InitAll(argset, scipyset, responses, tables) ==
    /\ pc = "start"
    /\ args \in argset
    /\ scipy \in scipyset
    /\ response \in responses
    /\ reachable_data = NoData
    /\ coordinates = <<>>
    /\ polygon_coords = <<>>
    /\ stations_df = NoFrame
    /\ bus_stops_df = NoFrame
    /\ map \in {[EmptyMap EXCEPT !.time_colors = t] : t \in tables}

InitWith(argset, scipyset, responses) ==
    InitAll(argset, scipyset, responses, {TimeColors})

\* Boundary Builder inputs: lists of points, among them duplicates, collinear
\* triples (<<1,1>>, <<2,1>>, <<3,1>> and the diagonal) and an interior point
GridPoints == {<<1, 1>>, <<3, 1>>, <<1, 3>>, <<3, 3>>, <<2, 2>>, <<2, 1>>}

PointLists == UNION {[1..n -> GridPoints] : n \in 0..MaxPoints}

PolygonItems(points) ==
    [i \in 1..Len(points) |->
        Item(<<"EKI">>, DictCoord(points[i][1], points[i][2]), 5 * i, 0)]

InitPolygon ==
    InitWith({DefaultArgs}, BOOLEAN,
             {Ok200(PolygonItems(points)) : points \in PointLists}
                 \cup FailedResponses)

\* Filter Engine inputs: nodes below, at and above the bounds, some tying in
\* travel time; the i-th node sits at <<i, i * i>>, so no three are collinear
FilterKinds ==
    {[name |-> <<"EKI">>, time |-> t, transfers |-> k] :
        t \in {5, 30, 40}, k \in {1, 2}}
    \cup {[name |-> <<"KA_BA", "KA_SU", "TEI">>, time |-> t, transfers |-> 1] :
             t \in {5, 40}}

FilterItems(kinds) ==
    [i \in 1..Len(kinds) |->
        Item(kinds[i].name, DictCoord(i, i * i), kinds[i].time, kinds[i].transfers)]

InitFilter ==
    InitWith({[DefaultArgs EXCEPT !.transfers = k] : k \in {{}, {0}, {1}}}, {FALSE},
             {Ok200(FilterItems(kinds)) :
                  kinds \in UNION {[1..n -> FilterKinds] : n \in 0..MaxNodes}}
                 \cup FailedResponses)

\* Node Classifier inputs: one record with every shape of coord and every
\* name over a small alphabet, alone or next to a well-formed record
NameChars == {"b", "U", "s", "KA_BA", "KA_SU"}

Names == UNION {[1..n -> NameChars] : n \in 0..MaxNameLen}

Coords ==
    {[kind |-> "list", val |-> <<7, 8>>],
     [kind |-> "dict", val |-> <<>>],
     [kind |-> "dict", val |-> ("lat" :> 7)],
     [kind |-> "dict", val |-> ("lon" :> 8)],
     DictCoord(7, 8)}

RawItems ==
    {Item(name, coord, 5, 0) : name \in Names, coord \in Coords}
    \cup {("name" :> name) @@ ("time" :> 5) @@ ("transit_count" :> 0) : name \in Names}
    \cup {("coord" :> DictCoord(7, 8))}

GoodItem == Item(<<"EKI">>, DictCoord(3, 4), 9, 1)

InitClassify ==
    InitWith({DefaultArgs}, {FALSE},
             {Ok200(items) :
                  items \in UNION {{<<it>>, <<it, GoodItem>>, <<GoodItem, it>>} :
                                      it \in RawItems}}
                 \cup {[status |-> "200", data |-> ("count" :> 0)]}
                 \cup FailedResponses)

\* Duration Bucketer inputs: one node of every duration in the range
InitBucket ==
    InitWith({DefaultArgs}, {FALSE},
             {Ok200(<<Item(<<"EKI">>, DictCoord(3, 4), time, 0)>>) :
                  time \in (0 - 2)..MaxDuration}
                 \cup FailedResponses)

\* colour tables for self.time_colors: the built-in one, an empty one, and
\* the built-in one without its float('inf') entry
ColorTables ==
    {TimeColors, {}, {entry \in TimeColors : ~entry[1].inf}}

\* a visualizer set up with each table, one node of every duration
InitConfig ==
    InitAll({DefaultArgs}, {FALSE},
            {Ok200(<<Item(<<"EKI">>, DictCoord(3, 4), time, 0)>>) :
                 time \in (0 - 2)..MaxDuration}
                \cup FailedResponses,
            ColorTables)

\* the two records of the end-to-end scenario, names spelled out in characters
ExampleStation ==
    Item(<<"E","x","a","m","p","l","e"," ","S","t","a","t","i","o","n">>,
         DictCoord(356800000, 1397700000), 5, 0)

ExampleBusStop ==
    Item(<<"E","x","a","m","p","l","e"," ","B","u","s"," ","S","t","o","p">>,
         DictCoord(356900000, 1397800000), 40, 2)

\* command lines: the default origin or the origin <<0, 0>>, every time limit
\* of the range, no transfer bound or a bound of 0, 1 or 2
ScenarioArgs ==
    {[lat |-> o[1], lon |-> o[2], time |-> t, transfers |-> k] :
        o \in {<<DefaultArgs.lat, DefaultArgs.lon>>, <<0, 0>>},
        t \in 0..MaxDuration,
        k \in {{}, {0}, {1}, {2}}}

\* the scenario's response, or a request that fails
InitScenario ==
    InitWith(ScenarioArgs, {FALSE},
             {Ok200(<<ExampleStation, ExampleBusStop>>),
              Ok200(<<ExampleBusStop, ExampleStation>>)}
                 \cup FailedResponses)

SpecPolygon == InitPolygon /\ [][Next]_vars
SpecFilter == InitFilter /\ [][Next]_vars
SpecClassify == InitClassify /\ [][Next]_vars
SpecBucket == InitBucket /\ [][Next]_vars
SpecConfig == InitConfig /\ [][Next]_vars
SpecScenario == InitScenario /\ [][Next]_vars

Init ==
    \/ InitPolygon \/ InitFilter \/ InitClassify \/ InitBucket
    \/ InitConfig \/ InitScenario
Spec == Init /\ [][Next]_vars

-----------------------------------------------------------------------------
(* Properties *)

Range(s) == {s[i] : i \in 1..Len(s)}

Count(s, x) == Cardinality({i \in 1..Len(s) : s[i] = x})

\* the same elements, each as often
SameBag(s, t) ==
    /\ Len(s) = Len(t)
    /\ \A x \in Range(s) \cup Range(t) : Count(s, x) = Count(t, x)

NodeKey(node) == <<node.name, node.lat, node.lon, node.time, node.transfers>>

RowKey(row, name_column) ==
    <<row[name_column], row.ido, row.keido, row.shoyo_jikan, row.norikae_kaisu>>

NodeKeys(nodes) == [i \in 1..Len(nodes) |-> NodeKey(nodes[i])]

RowKeys(df, name_column) ==
    [i \in 1..Len(df.rows) |-> RowKey(df.rows[i], name_column)]

\* the nodes within both bounds, in input order
WithinBounds(nodes, t, k) ==
    SelectSeq(nodes, LAMBDA n : n.time <= t /\ n.transfers <= k)

\* the Filter Engine has run in main, with both bounds given
Filtered == pc = "processed" /\ args.transfers # {}

\* C1: the Filter Engine's output holds exactly the input nodes with
\* travelTime <= t and transferCount <= k, each as often as in the input, for
\* the nodes of a 200 response as for the mock dataset.
C1_FilterExactlyWithinBounds ==
    Filtered =>
        \A k \in args.transfers :
            /\ SameBag(RowKeys(stations_df, "ekimei"),
                       NodeKeys(WithinBounds(reachable_data.stations, args.time, k)))
            /\ SameBag(RowKeys(bus_stops_df, "basuteimei"),
                       NodeKeys(WithinBounds(reachable_data.bus_stops, args.time, k)))

\* the classification rule of the specification: the name contains "bus" in
\* any letter case, or the vendor's marker
BusByRule(name) ==
    Contains(BASU, name) \/ Contains(<<"b", "u", "s">>, Lower(name))

\* a record the classifier accepts: its coord is present and is a dict
Accepted(item) == "coord" \in DOMAIN item /\ item["coord"].kind = "dict"

Classified == pc \in {"fetched", "t_parsed"} /\ response.status = "200"

\* C2: every accepted record is in exactly one of the two categories, BusStop
\* iff its name contains "bus" (any case) or the vendor marker, wherever the
\* classification is performed (api_client.py and test_with_response.py).
C2_ClassificationByRule ==
    Classified =>
        LET items == Get(response.data, "items", <<>>)
        IN /\ Len(reachable_data.stations) + Len(reachable_data.bus_stops)
                  = Len(SelectSeq(items, Accepted))
           /\ \A i \in 1..Len(reachable_data.stations) :
                  ~BusByRule(reachable_data.stations[i].name)
           /\ \A i \in 1..Len(reachable_data.bus_stops) :
                  BusByRule(reachable_data.bus_stops[i].name)

\* _generate_polygon_from_points has returned (to main or to the test script)
BuilderReturned ==
    \/ pc = "fetched" /\ response.status = "200"
    \/ pc = "t_mapped" /\ coordinates # <<>>

BuilderOutput ==
    IF pc = "fetched" THEN reachable_data.coordinates ELSE polygon_coords

\* C3: a returned polygon is empty, or it is closed (first = last) and has at
\* least 4 points, at least 3 of them distinct.
C3_PolygonInvariant ==
    BuilderReturned =>
        \/ BuilderOutput = <<>>
        \/ /\ BuilderOutput[1] = BuilderOutput[Len(BuilderOutput)]
           /\ Len(BuilderOutput) >= 4
           /\ Cardinality(Range(BuilderOutput)) >= 3

\* _generate_polygon_from_points has been called and has returned or raised
BuilderCalled ==
    \/ pc \in {"fetched", "error"} /\ response.status = "200"
    \/ pc \in {"t_mapped", "t_error"} /\ coordinates # <<>>

\* C4: with 2 or fewer distinct input points the Boundary Builder returns the
\* empty polygon.
C4_FewDistinctPointsEmpty ==
    (BuilderCalled /\ Cardinality(Range(coordinates)) <= 2) =>
        BuilderReturned /\ BuilderOutput = <<>>

Green == <<"2", "e", "c", "c", "4", "0">>
Yellow == <<"f", "f", "d", "c", "0", "0">>
Orange == <<"f", "f", "8", "5", "1", "b">>
Red == <<"f", "f", "4", "1", "3", "6">>

\* the tier of the smallest upper bound that is >= the duration
TierByRule(time) ==
    LET tiers == (10 :> Green) @@ (20 :> Yellow) @@ (30 :> Orange)
        above == {b \in DOMAIN tiers : b >= time}
    IN IF above = {} THEN Red ELSE tiers[MinOf(above)]

AllMarkers == map.stations \o map.bus_stops

\* C5: every marker's colour is the tier of the smallest upper bound >= its
\* duration, the unbounded tier above 30; 10 is green, 11 yellow, 31 red, and
\* "gray" is never returned.
C5_BucketBySmallestBound ==
    \A i \in 1..Len(AllMarkers) :
        LET m == AllMarkers[i]
        IN /\ m.color = TierByRule(m.time)
           /\ m.color # Gray
           /\ (m.time = 10 => m.color = Green)
           /\ (m.time = 11 => m.color = Yellow)
           /\ (m.time = 31 => m.color = Red)

C5_Witness ==
    /\ pc = "done"
    /\ \E i \in 1..Len(map.stations) :
          map.stations[i].time = 31 /\ map.stations[i].color = Red

\* a coord that is a lat/lon structure
WellFormed(item) ==
    /\ Accepted(item)
    /\ {"lat", "lon"} \subseteq DOMAIN item["coord"].val

\* C6: a record with an absent or malformed coordinate is in neither list nor
\* in the point list, no node has a coordinate component defaulted to 0, and
\* the other records of the batch are processed as usual.
C6_MalformedRecordsDropped ==
    (pc = "fetched" /\ response.status = "200") =>
        LET good == SelectSeq(Get(response.data, "items", <<>>), WellFormed)
            nodes == reachable_data.stations \o reachable_data.bus_stops
        IN /\ Len(nodes) = Len(good)
           /\ Len(coordinates) = Len(good)
           /\ \A i \in 1..Len(nodes) :
                  \E j \in 1..Len(good) :
                      /\ nodes[i].lat = good[j]["coord"].val["lat"]
                      /\ nodes[i].lon = good[j]["coord"].val["lon"]

\* C7: 3 or more points that are all collinear (here: 3 or more distinct
\* points on one line) never make the Boundary Builder raise: the call
\* returns and main does not take its error exit.
C7_CollinearNeverRaises ==
    (/\ BuilderCalled
     /\ Cardinality(Range(coordinates)) >= 3
     /\ Collinear(Range(coordinates))) => BuilderReturned

\* p is on or inside the ring, the ring being walked with sign s (1 for
\* counterclockwise, -1 for clockwise)
OnOrInside(ring, p, s) ==
    \A i \in 1..(Len(ring) - 1) : s * Cross(ring[i], ring[i + 1], p) >= 0

\* every corner of the ring turns the way of s
TurnsOneWay(ring, s) ==
    LET n == Len(ring) - 1
    IN \A i \in 1..n :
          s * Cross(ring[i], ring[i + 1], ring[(i % n) + 2]) > 0

HullPathTaken ==
    /\ BuilderReturned
    /\ scipy
    /\ Len(coordinates) >= 3
    /\ ~Collinear(Range(coordinates))

\* C8: on the hull path, for 3 or more points not all collinear, every input
\* point is on or inside the returned polygon, whose vertices are input
\* points listed in one rotational order.
C8_HullContainsInput ==
    HullPathTaken =>
        /\ Range(BuilderOutput) \subseteq Range(coordinates)
        /\ \E s \in {1, 0 - 1} :
              /\ TurnsOneWay(BuilderOutput, s)
              /\ \A p \in Range(coordinates) : OnOrInside(BuilderOutput, p, s)

C8_Witness ==
    /\ HullPathTaken
    /\ Len(coordinates) = 4
    /\ <<2, 2>> \in Range(coordinates)
    /\ Len(BuilderOutput) = 4

FilterDone == pc \in {"processed", "t_processed"}

\* position in the input of the node a row was made from
InputPosition(nodes, key) == CHOOSE i \in 1..Len(nodes) : NodeKey(nodes[i]) = key

StableAscending(df, name_column, nodes) ==
    \A i \in 1..Len(df.rows), j \in 1..Len(df.rows) :
        i < j =>
            /\ df.rows[i].shoyo_jikan <= df.rows[j].shoyo_jikan
            /\ df.rows[i].shoyo_jikan = df.rows[j].shoyo_jikan =>
                  InputPosition(nodes, RowKey(df.rows[i], name_column))
                      < InputPosition(nodes, RowKey(df.rows[j], name_column))

\* C9: the output is ascending in travelTime and nodes of equal travelTime
\* keep their input order.
C9_AscendingStable ==
    FilterDone =>
        /\ StableAscending(stations_df, "ekimei", reachable_data.stations)
        /\ StableAscending(bus_stops_df, "basuteimei", reachable_data.bus_stops)

\* C10: an empty input gives a frame with zero rows and the seven columns
\* (name, latitude, longitude, category, lines, travel time, transfer count)
\* that a frame with rows has.
C10_EmptyInputKeepsShape ==
    FilterDone =>
        /\ reachable_data.stations = <<>> =>
              /\ stations_df.rows = <<>>
              /\ stations_df.columns = <<"ekimei", "ido", "keido", "shurui",
                                         "rosen", "shoyo_jikan", "norikae_kaisu">>
        /\ reachable_data.bus_stops = <<>> =>
              /\ bus_stops_df.rows = <<>>
              /\ bus_stops_df.columns = <<"basuteimei", "ido", "keido", "shurui",
                                          "rosen", "shoyo_jikan", "norikae_kaisu">>
        /\ stations_df.rows # <<>> =>
              /\ stations_df.columns = <<"ekimei", "ido", "keido", "shurui",
                                         "rosen", "shoyo_jikan", "norikae_kaisu">>
              /\ \A i \in 1..Len(stations_df.rows) :
                    DOMAIN stations_df.rows[i] = Range(stations_df.columns)
        /\ bus_stops_df.rows # <<>> =>
              /\ bus_stops_df.columns = <<"basuteimei", "ido", "keido", "shurui",
                                          "rosen", "shoyo_jikan", "norikae_kaisu">>
              /\ \A i \in 1..Len(bus_stops_df.rows) :
                    DOMAIN bus_stops_df.rows[i] = Range(bus_stops_df.columns)

C10_Witness ==
    /\ pc = "processed"
    /\ response.status = "200"
    /\ reachable_data.stations = <<>>
    /\ stations_df.rows = <<>>
    /\ bus_stops_df.rows # <<>>

\* the input nodes the rows of df were made from, in the order of the rows
SurvivingNodes(df, name_column, nodes) ==
    [i \in 1..Len(df.rows) |->
        nodes[InputPosition(nodes, RowKey(df.rows[i], name_column))]]

\* the transfer bound the script at pc filters with
BoundInUse == IF pc = "processed" THEN args.transfers ELSE {1}

\* C11: filtering the already filtered nodes again, with the same bound,
\* returns them unchanged: the same rows in the same order, whichever frame
\* the second call returns.
C11_FilterIdempotent ==
    FilterDone =>
        /\ \A again \in ProcessStations(
                  SurvivingNodes(stations_df, "ekimei", reachable_data.stations),
                  BoundInUse) :
              again.rows = stations_df.rows
        /\ \A again \in ProcessBusStops(
                  SurvivingNodes(bus_stops_df, "basuteimei", reachable_data.bus_stops),
                  BoundInUse) :
              again.rows = bus_stops_df.rows

\* C16: whatever the input and the bound, both frames the filter returns
\* carry the seven declared columns, a zero-row frame included, so the steps
\* that read the travel-time and transfer-count columns always find them.
C16_SevenColumnsAlways ==
    FilterDone =>
        /\ stations_df.columns = StationColumns
        /\ bus_stops_df.columns = BusStopColumns
        /\ HasColumn(stations_df, "shoyo_jikan")
        /\ HasColumn(stations_df, "norikae_kaisu")

FallbackTaken ==
    /\ BuilderReturned
    /\ ~scipy
    /\ Len(coordinates) >= 3

\* the point list the parser handed to the Boundary Builder
ParsedPoints ==
    IF pc = "fetched" THEN ParseItems(response.data).coordinates
    ELSE TestParseItems(response.data).coordinates

\* C17: on the fallback path n >= 3 input points give n + 1 output points:
\* the first n are the input points, each as often as in the input, in
\* non-decreasing angle around the centroid; the last repeats the first; the
\* input list is the one that was handed over.
C17_FallbackKeepsEveryPoint ==
    FallbackTaken =>
        LET n == Len(coordinates)
            out == BuilderOutput
        IN /\ Len(out) = n + 1
           /\ SameBag(SubSeq(out, 1, n), coordinates)
           /\ \A i \in 1..n, j \in 1..n :
                 i < j => ~AngleLess(FromCenter(coordinates, out[j]),
                                     FromCenter(coordinates, out[i]))
           /\ out[n + 1] = out[1]
           /\ coordinates = ParsedPoints

\* four points with a duplicate and the interior point, not given in angular
\* order
C17_Witness ==
    /\ FallbackTaken
    /\ Len(coordinates) = 4
    /\ <<2, 2>> \in Range(coordinates)
    /\ Cardinality(Range(coordinates)) = 3
    /\ SubSeq(BuilderOutput, 1, 4) # coordinates
    /\ Len(BuilderOutput) = 5

\* main has received the empty polygon from a 200 response with 2 or fewer
\* points
EmptyPolygonReturned ==
    /\ pc \in {"fetched", "processed", "done", "error", "fetch_failed"}
    /\ response.status = "200"
    /\ Len(coordinates) < 3

\* C13: when the Boundary Builder returns the empty polygon, main takes none
\* of its error exits; the saved map has no overlay, and its markers are those
\* of the two frames, one per row, as for any other run.
C13_EmptyPolygonIsNoArea ==
    EmptyPolygonReturned =>
        /\ pc \notin {"error", "fetch_failed"}
        /\ reachable_data.coordinates = <<>>
        /\ pc = "done" =>
              /\ map.polygons = <<>>
              /\ map.saved /\ map.legend /\ map.center
              /\ map.stations =
                    [i \in 1..Len(stations_df.rows) |->
                        Marker(map.time_colors, stations_df.rows[i], "ekimei", "train")]
              /\ map.bus_stops =
                    [i \in 1..Len(bus_stops_df.rows) |->
                        Marker(map.time_colors, bus_stops_df.rows[i], "basuteimei", "bus")]

C13_Witness ==
    /\ pc = "done"
    /\ response.status = "200"
    /\ Len(coordinates) = 2
    /\ map.saved
    /\ map.polygons = <<>>
    /\ Len(map.stations) = 2

\* a bucket configuration as the spec defines it: a non-empty threshold list
\* ending in the unbounded tier (dict keys are distinct and the lookup sorts
\* them, so the thresholds are strictly increasing by construction)
ValidConfig(time_colors) ==
    /\ time_colors # {}
    /\ \E entry \in time_colors : entry[1].inf

ScenarioRun ==
    /\ response.status = "200"
    /\ Range(response.data["items"]) = {ExampleStation, ExampleBusStop}
    /\ args.time = 30
    /\ args.transfers = {1}

\* the rows of both frames, reduced to name, category and duration
FilteredOutput ==
    [i \in 1..Len(stations_df.rows) |->
        <<stations_df.rows[i].ekimei, stations_df.rows[i].shurui,
          stations_df.rows[i].shoyo_jikan>>]
    \o [i \in 1..Len(bus_stops_df.rows) |->
        <<bus_stops_df.rows[i].basuteimei, bus_stops_df.rows[i].shurui,
          bus_stops_df.rows[i].shoyo_jikan>>]

\* C14: the records ("Example Station", 5, 0) and ("Example Bus Stop", 40, 2),
\* classified and filtered with the bounds (30, 1), leave only the first
\* node, as a station, and its marker is in the first, green tier.
C14_ScenarioKeepsStationOnly ==
    ScenarioRun =>
        /\ pc \in {"processed", "done", "t_processed", "t_mapped", "t_done"} =>
              FilteredOutput = << <<ExampleStation["name"], "EKI", 5>> >>
        /\ pc \in {"done", "t_mapped", "t_done"} =>
              /\ Len(AllMarkers) = 1
              /\ AllMarkers[1].name = ExampleStation["name"]
              /\ AllMarkers[1].icon = "train"
              /\ AllMarkers[1].color = Green

C14_Witness ==
    /\ ScenarioRun
    /\ pc = "done"
    /\ Len(reachable_data.bus_stops) = 1
    /\ Len(map.stations) = 1
    /\ map.bus_stops = <<>>
    /\ map.stations[1].color = Green

\* get_reachable_transit has returned after a request that did not succeed
MockReturned == response.status # "200" /\ pc # "start"

\* absolute value
Abs(x) == IF x < 0 THEN 0 - x ELSE x

MockRing == reachable_data.coordinates

\* C18: the synthetic ring has 37 points whatever the centre and the budget:
\* 36 samples, the k-th north or south and east or west of the centre as the
\* angle 10 * k degrees points (the samples on an axis apart), and a repeat
\* of the first sample; with a budget of 0 all 37 are the centre.
C18_MockRingHas37Points ==
    MockReturned =>
        /\ Len(MockRing) = 37
        /\ MockRing[37] = MockRing[1]
        /\ \A k \in 0..35 :
              LET dlat == MockRing[k + 1][1] - args.lat
                  dlon == MockRing[k + 1][2] - args.lon
              IN IF args.time = 0
                 THEN dlat = 0 /\ dlon = 0
                 ELSE /\ (k = 0 => dlat = 0)
                      /\ (k \in 1..17 => dlat > 0)
                      /\ (k \in 19..35 => dlat < 0)
                      /\ (k \in (0..8) \cup (28..35) => dlon > 0)
                      /\ (k \in 10..26 => dlon < 0)
        /\ args.time > 0 =>
              \A j \in 1..36, k \in 1..36 : j # k => MockRing[j] # MockRing[k]

\* a budget of 0 at the origin <<0, 0>>: 37 copies of the centre
C18_Witness ==
    /\ MockReturned
    /\ pc = "fetched"
    /\ args.time = 0
    /\ args.lat = 0 /\ args.lon = 0
    /\ Len(MockRing) = 37
    /\ Range(MockRing) = {<<0, 0>>}

====
